---------------------------- MODULE Spec2Model ----------------------------
(***************************************************************************)
(* Concurrent ingredient-to-product resolution of bringo_chef_ai_assistant *)
(* (sub_agents/product_search/tools.py): the rate-limited catalog client,  *)
(* the per-ingredient fallback loop and the batch coordinator.             *)
(*                                                                         *)
(* Python values.  A str is the sequence of its characters, each a         *)
(* one-character string (<<"a", " ", "b">> is "a b").  None and a JSON     *)
(* value that is not a string (a number) are the one-element sequences     *)
(* None and NonStr, which are no str.  Prices are in hundredths of a RON.  *)
(* A relevance score s in [0,1] is the integer s * RelScale.  Optional[T]  *)
(* is the empty sequence (None) or the one-element sequence <<x>>.         *)
(***************************************************************************)
EXTENDS Integers, Sequences, FiniteSets, TLC

None == <<"<None>">>
NonStr == <<"<number>">>

IsStr(x) == x # None /\ x # NonStr

\* Python truthiness of None, a str or a non-zero number.
Truthy(x) == x # None /\ x # <<>>

Range(s) == {s[k] : k \in DOMAIN s}

\* ------------------------------------------------------------------------
\* Bounds of the model and constants of the program.

\* Largest batch (number of ingredient descriptors) explored.
MaxIngredients == 2

\* Most search terms planned over the whole batch.
MaxBatchTerms == 3

\* settings.max_concurrent_requests (default 5, BRINGO_MAX_CONCURRENT_REQUESTS).
max_concurrent_requests == 1

\* settings.max_products_per_search (default 8, BRINGO_MAX_PRODUCTS_PER_SEARCH).
max_products_per_search == 2

\* settings.max_retry_attempts.
max_retry_attempts == 3

\* unique_terms[:5] in _generate_search_terms.
MaxSearchTerms == 5

\* 1.0 as a relevance score; divisible by every word count of the term pool.
RelScale == 60

\* ------------------------------------------------------------------------
\* str methods.

LowerChar(c) ==
    CASE c = "A" -> "a"
      [] c = "B" -> "b"
      [] c = "C" -> "c"
      [] c = "N" -> "n"
      [] c = "S" -> "s"
      [] OTHER -> c

\* str.lower()
Lower(s) == [k \in DOMAIN s |-> LowerChar(s[k])]

\* t in s  (substring)
Contains(s, t) ==
    \E k \in 0..(Len(s) - Len(t)) : SubSeq(s, k + 1, k + Len(t)) = t

\* s.startswith(t)
StartsWith(s, t) == Len(t) <= Len(s) /\ SubSeq(s, 1, Len(t)) = t

RECURSIVE SplitFrom(_, _, _)
\* The words of s from position k on; cur is the word being read.
SplitFrom(s, k, cur) ==
    IF k > Len(s)
    THEN IF cur = <<>> THEN {} ELSE {cur}
    ELSE IF s[k] = " "
         THEN (IF cur = <<>> THEN {} ELSE {cur}) \cup SplitFrom(s, k + 1, <<>>)
         ELSE SplitFrom(s, k + 1, Append(cur, s[k]))

\* set(s.split())
Words(s) == SplitFrom(s, 1, <<>>)

Min(a, b) == IF a <= b THEN a ELSE b

\* A score that compares the names as they are written, without lower().
calculate_relevance_case_sensitive(product_name, search_term) ==
    LET search_words == Words(search_term)
        common_words == search_words \cap Words(product_name)
    IN  IF Contains(product_name, search_term) THEN RelScale
        ELSE IF search_words = {} THEN 0
        ELSE Min(RelScale, (Cardinality(common_words) * RelScale) \div Cardinality(search_words))

\* BringoSearchClient._calculate_relevance, scaled by RelScale.
calculate_relevance(product_name, search_term) ==
    LET product_lower == Lower(product_name)
        search_lower == Lower(search_term)
        search_words == Words(search_lower)
        product_words == Words(product_lower)
        common_words == search_words \cap product_words
        base_score == (Cardinality(common_words) * RelScale) \div Cardinality(search_words)
        bonus == IF StartsWith(product_lower, search_lower) THEN RelScale \div 5 ELSE 0
    IN  IF Contains(product_lower, search_lower) THEN RelScale
        ELSE IF search_words = {} THEN 0
        ELSE Min(RelScale, base_score + bonus)

\* ------------------------------------------------------------------------
\* Sorting and deduplication of product lists.

\* A sort key without the price.
KeyLessRelevanceOnly(p, q) == p.relevance_score > q.relevance_score

\* A sort key that puts the price first.
KeyLessPriceFirst(p, q) ==
    \/ p.price < q.price
    \/ p.price = q.price /\ p.relevance_score > q.relevance_score

\* p sorts strictly before q under key (-relevance_score, price).
KeyLess(p, q) ==
    \/ p.relevance_score > q.relevance_score
    \/ p.relevance_score = q.relevance_score /\ p.price < q.price

RECURSIVE InsertSorted(_, _)
\* Stable insertion: p goes after every element that does not sort after it.
InsertSorted(sorted, p) ==
    IF sorted = <<>> THEN <<p>>
    ELSE IF KeyLess(p, Head(sorted)) THEN <<p>> \o sorted
    ELSE <<Head(sorted)>> \o InsertSorted(Tail(sorted), p)

RECURSIVE SortFrom(_, _, _)
SortFrom(products, k, acc) ==
    IF k > Len(products) THEN acc
    ELSE SortFrom(products, k + 1, InsertSorted(acc, products[k]))

\* A sort that leaves the list as it was found.
SortProductsNone(products) == products

\* products.sort(key=lambda p: (-p.relevance_score, p.price))  (stable)
SortProducts(products) == SortFrom(products, 1, <<>>)

\* (product.name.lower().strip(), round(product.price, 2)); names of the
\* catalog are already stripped by get_text(strip=True).
DedupKey(p) == <<Lower(p.name), p.price>>

RECURSIVE DedupFrom(_, _, _, _)
DedupFrom(products, k, unique_products, seen) ==
    IF k > Len(products) THEN unique_products
    ELSE IF DedupKey(products[k]) \notin seen
         THEN DedupFrom(products, k + 1, Append(unique_products, products[k]),
                        seen \cup {DedupKey(products[k])})
         ELSE DedupFrom(products, k + 1, unique_products, seen)

\* A deduplication that keeps every product.
deduplicate_products_none(products) == products

\* _deduplicate_products
deduplicate_products(products) == DedupFrom(products, 1, <<>>, {})

Take(s, n) == SubSeq(s, 1, Min(n, Len(s)))


\* ------------------------------------------------------------------------
\* Query planning: _generate_search_terms.

\* A loop that keeps every non-empty term, repeated or not.
UniqueTermsKeepAll(search_terms, k, unique_terms, seen) ==
    SelectSeq(search_terms, LAMBDA term : Truthy(term))

RECURSIVE UniqueTermsFrom(_, _, _, _)
\* The loop "for term in search_terms: if term and term.lower() not in seen".
UniqueTermsFrom(search_terms, k, unique_terms, seen) ==
    IF k > Len(search_terms) THEN unique_terms
    ELSE IF Truthy(search_terms[k]) /\ Lower(search_terms[k]) \notin seen
         THEN UniqueTermsFrom(search_terms, k + 1, Append(unique_terms, search_terms[k]),
                              seen \cup {Lower(search_terms[k])})
         ELSE UniqueTermsFrom(search_terms, k + 1, unique_terms, seen)

\* The candidate list before deduplication.  ai is the outcome of the
\* generate_text call: an error (or unparseable content, caught by the try)
\* leaves the list as it is, otherwise additional_terms is appended.
CandidateTerms(english_name, romanian_name, ai) ==
    LET first == IF Truthy(romanian_name) THEN <<romanian_name>> ELSE <<>>
        second == IF Truthy(english_name) /\ Lower(english_name) # Lower(romanian_name)
                  THEN Append(first, english_name) ELSE first
    IN  IF ai.error THEN second ELSE second \o ai.additional_terms

\* _generate_search_terms raises AttributeError (outside its try block) when
\* .lower() is called on a value that is no str: english_name.lower() or
\* romanian_name.lower() in the comparison, term.lower() in the final loop.
GenerateRaises(english_name, romanian_name, ai) ==
    \/ Truthy(english_name) /\ (~IsStr(english_name) \/ ~IsStr(romanian_name))
    \/ \E k \in DOMAIN CandidateTerms(english_name, romanian_name, ai) :
          LET term == CandidateTerms(english_name, romanian_name, ai)[k]
          IN  Truthy(term) /\ ~IsStr(term)

\* A planner that returns every unique term.
generate_search_terms_uncapped(english_name, romanian_name, ai) ==
    UniqueTermsFrom(CandidateTerms(english_name, romanian_name, ai), 1, <<>>, {})

\* The returned list: unique_terms[:5].
generate_search_terms(english_name, romanian_name, ai) ==
    Take(UniqueTermsFrom(CandidateTerms(english_name, romanian_name, ai), 1, <<>>, {}),
         MaxSearchTerms)

\* ------------------------------------------------------------------------
\* Result extraction: _extract_product_info and _parse_products.

\* price of a raw element without a price block or with a price text the
\* pattern \d+[,.]\d+ does not match.
NoPrice == -1

\* An extraction that does not look at the name.
extract_product_info_unnamed(elem, search_term) ==
    IF elem.price = NoPrice THEN <<>>
    ELSE IF ~(elem.price > 0) THEN <<>>
    ELSE << [name |-> elem.name, price |-> elem.price,
             relevance_score |-> calculate_relevance(elem.name, search_term)] >>

\* _extract_product_info: None (<<>>) for an element without a name or a
\* parseable price, and for one ProductInfo rejects (price: Field(gt=0)).
extract_product_info(elem, search_term) ==
    IF elem.name = <<>> THEN <<>>
    ELSE IF elem.price = NoPrice THEN <<>>
    ELSE IF ~(elem.price > 0) THEN <<>>
    ELSE << [name |-> elem.name, price |-> elem.price,
             relevance_score |-> calculate_relevance(elem.name, search_term)] >>

\* "if product and product.price > 0"
KeepProduct(product) == product # <<>> /\ product[1].price > 0

RECURSIVE ParseFrom(_, _, _, _)
ParseFrom(elems, k, search_term, products) ==
    IF k > Len(elems) THEN products
    ELSE LET product == extract_product_info(elems[k], search_term)
         IN  ParseFrom(elems, k + 1, search_term,
                       IF KeepProduct(product) THEN Append(products, product[1])
                       ELSE products)

\* A parser that keeps every product block, whatever its name and price.
parse_products_unfiltered(html, search_term, max_results) ==
    SortProducts([k \in DOMAIN Take(html, max_results) |->
                    [name |-> html[k].name, price |-> html[k].price,
                     relevance_score |-> calculate_relevance(html[k].name, search_term)]])

\* _parse_products: the first max_results product blocks, extracted,
\* filtered and sorted.
parse_products(html, search_term, max_results) ==
    SortProducts(ParseFrom(Take(html, max_results), 1, search_term, <<>>))

\* ------------------------------------------------------------------------
\* Inputs explored.

\* Descriptors produced by _extract_search_ingredients (name and
\* romanian_name are whatever the upstream JSON holds: a str, "" or null).
IngredientPool ==
    { [name |-> <<"b">>, romanian_name |-> <<"a">>],
      [name |-> <<"A">>, romanian_name |-> <<"a">>],
      [name |-> <<"b">>, romanian_name |-> None],
      [name |-> <<>>, romanian_name |-> <<>>],
      [name |-> None, romanian_name |-> <<"a">>] }

Batches == UNION { [1..n -> IngredientPool] : n \in 0..MaxIngredients }

\* Outcomes of the term-suggestion call.
AIResponses ==
    { [error |-> TRUE, additional_terms |-> <<>>],
      [error |-> FALSE, additional_terms |-> << <<"A">>, <<"c">> >>],
      [error |-> FALSE, additional_terms |-> << NonStr >>] }

\* Catalog pages: the div.box-product blocks of a 200 response.
RawPages ==
    { << [name |-> <<>>, price |-> 150],
         [name |-> <<"a">>, price |-> 0],
         [name |-> <<"b">>, price |-> NoPrice] >>,
      << [name |-> <<"A", " ", "b">>, price |-> 250] >>,
      << [name |-> <<"b">>, price |-> 300],
         [name |-> <<"a">>, price |-> 120],
         [name |-> <<"c">>, price |-> 120] >> }

\* Budget figures a validation document may carry, in hundredths.
Budgets == {200, 10000}

\* budget_analysis of the validation document, a dict given as its set of
\* <<key, value>> items: the upstream validation writes the figure under
\* total_estimated_cost_ron, the analysis reads total_estimated_cost; the
\* dict may also be absent (empty).
BudgetAnalyses ==
    {{}} \cup {{<<"total_estimated_cost", b>>} : b \in Budgets}
         \cup {{<<"total_estimated_cost_ron", b>>} : b \in Budgets}

\* The validation documents of the batch specification.
ValidationDocs ==
    { [status |-> "success", budget_analysis |-> {}],
      [status |-> "error", budget_analysis |-> {}] }

\* ------------------------------------------------------------------------
\* State.

VARIABLES
    ingredients,        \* the list given to _execute_concurrent_searches
    suggestions,        \* per ingredient: what the term-suggestion call answers
    catalog,            \* the pages the store answers a search with
    validation_data,    \* the validation document given to the batch call
    cpc,                \* search_products_for_ingredients: "start", "gathering", "returned";
                        \* "direct" when a caller runs the tasks on a client of its own
    session,            \* BringoSearchClient.session: "none", "open", "closed"
    rate_limiter,       \* free permits of BringoSearchClient.rate_limiter
    pc,                 \* per task: "created", "acquire", "in_flight", "done", "raised"
    search_terms,       \* per task: the planned list
    term_idx,           \* per task: position of the loop in search_terms
    all_products,       \* per task
    successful_terms,   \* per task
    task_result,        \* per task: <<>> or <<ProductSearchResult>>
    requests,           \* per task: the catalog requests completed, in order
    response,           \* <<>> or <<the document returned by the batch call>>
    deadline_exceeded,  \* a caller's deadline for the batch has passed
    pending_at_deadline, \* the tasks that had not finished when it passed
    ai_client,          \* shared/client.py, the global _ai_client: "None" or "instance"
    client_set,         \* AsyncAIClient._client is set
    initialized,        \* AsyncAIClient._initialized
    call_stack,         \* the coroutine frames of the AI client, innermost last
    returned,           \* what the frame that just ended handed to its caller
    generations,        \* number of _sync_generate_text calls issued
    uses                \* number of generate_text calls made by term generation

aivars == <<ai_client, client_set, initialized, call_stack, returned, generations, uses>>

vars == <<aivars, ingredients, suggestions, catalog, validation_data, cpc, session, rate_limiter, pc, search_terms, term_idx,
          all_products, successful_terms, task_result, requests, response,
          deadline_exceeded, pending_at_deadline>>

\* AsyncAIClient not yet created: module load of shared/client.py (line 327)
\* and AsyncAIClient.__init__ (lines 34-38).
AIFresh ==
    /\ ai_client = "None"
    /\ client_set = FALSE
    /\ initialized = FALSE
    /\ call_stack = <<>>
    /\ returned = "none"
    /\ generations = 0
    /\ uses = 0

Tasks == DOMAIN ingredients

\* Number of terms the planner returns for ingredient i (none when it raises).
PlannedCount(batch, answers, i) ==
    IF GenerateRaises(batch[i].name, batch[i].romanian_name, answers[i]) THEN 0
    ELSE Len(generate_search_terms(batch[i].name, batch[i].romanian_name, answers[i]))

RECURSIVE PlannedTotal(_, _, _)
PlannedTotal(batch, answers, n) ==
    IF n = 0 THEN 0
    ELSE PlannedCount(batch, answers, n) + PlannedTotal(batch, answers, n - 1)

Init ==
    /\ ingredients \in Batches
    /\ suggestions \in [DOMAIN ingredients -> AIResponses]
    /\ PlannedTotal(ingredients, suggestions, Len(ingredients)) <= MaxBatchTerms
    /\ catalog = RawPages
    /\ validation_data \in ValidationDocs
    /\ cpc = "start"
    /\ session = "none"
    /\ rate_limiter = max_concurrent_requests
    /\ pc = [i \in DOMAIN ingredients |-> "created"]
    /\ search_terms = [i \in DOMAIN ingredients |-> <<>>]
    /\ term_idx = [i \in DOMAIN ingredients |-> 0]
    /\ all_products = [i \in DOMAIN ingredients |-> <<>>]
    /\ successful_terms = [i \in DOMAIN ingredients |-> <<>>]
    /\ task_result = [i \in DOMAIN ingredients |-> <<>>]
    /\ requests = [i \in DOMAIN ingredients |-> <<>>]
    /\ response = <<>>
    /\ deadline_exceeded = FALSE
    /\ pending_at_deadline = {}
    /\ AIFresh

\* ------------------------------------------------------------------------
\* ProductSearchResult and the end of _search_single_ingredient.

\* pydantic accepts ProductSearchResult(ingredient: str, search_terms_used:
\* List[str], ...) only with a str ingredient and str terms.
ValidResult(ingredient, terms_used) ==
    IsStr(ingredient) /\ \A k \in DOMAIN terms_used : IsStr(terms_used[k])

\* A builder that recommends only a product of relevance >= 0.7.
BuildResultThreshold(ingredient_name, products, terms_used) ==
    LET unique_products == SortProducts(deduplicate_products(products))
    IN  [ingredient |-> ingredient_name,
         search_terms_used |-> terms_used,
         products_found |-> Take(unique_products, max_products_per_search),
         best_recommendation |->
             IF unique_products # <<>>
                /\ 10 * unique_products[1].relevance_score >= 7 * RelScale
             THEN <<unique_products[1]>> ELSE <<>>,
         total_found |-> Len(unique_products),
         search_success |-> Len(unique_products) > 0]

\* Lines 609-623: deduplicate, sort, pick the best, build the result.
BuildResult(ingredient_name, products, terms_used) ==
    LET unique_products == SortProducts(deduplicate_products(products))
    IN  [ingredient |-> ingredient_name,
         search_terms_used |-> terms_used,
         products_found |-> Take(unique_products, max_products_per_search),
         best_recommendation |->
             IF unique_products # <<>> THEN <<unique_products[1]>> ELSE <<>>,
         total_found |-> Len(unique_products),
         search_success |-> Len(unique_products) > 0]

\* Lines 568-575: the result recorded for a task that raised.
PlaceholderResult(ingredient) ==
    [ingredient |-> ingredient.name,
     search_terms_used |-> <<ingredient.romanian_name>>,
     products_found |-> <<>>,
     best_recommendation |-> <<>>,
     total_found |-> 0,
     search_success |-> FALSE]

\* The task leaves its loop and returns (or raises, when pydantic rejects
\* the result).
Finish(i, products, terms_used) ==
    /\ all_products' = [all_products EXCEPT ![i] = products]
    /\ successful_terms' = [successful_terms EXCEPT ![i] = terms_used]
    /\ IF ValidResult(ingredients[i].name, terms_used)
       THEN /\ pc' = [pc EXCEPT ![i] = "done"]
            /\ task_result' = [task_result EXCEPT ![i] =
                   <<BuildResult(ingredients[i].name, products, terms_used)>>]
       ELSE /\ pc' = [pc EXCEPT ![i] = "raised"]
            /\ UNCHANGED task_result

\* ------------------------------------------------------------------------
\* The batch call starts: search_products_for_ingredients up to gather().

\* A validation document whose status is neither "success" nor "warning"
\* raises (line 220) and an empty ingredient list raises "No valid
\* ingredients found" (line 226); the outer handler turns either into the
\* error document.
ErrorResponse ==
    [status |-> "error", data |-> <<>>, total_searches |-> 0,
     successful_searches |-> 0, total_products_found |-> 0]

StartBatch ==
    /\ cpc = "start"
    /\ IF validation_data.status \notin {"success", "warning"} \/ ingredients = <<>>
       THEN /\ response' = <<ErrorResponse>>
            /\ cpc' = "returned"
            /\ UNCHANGED session
       ELSE /\ session' = "open"
            /\ cpc' = "gathering"
            /\ UNCHANGED response
    /\ UNCHANGED <<aivars, ingredients, suggestions, catalog, validation_data, rate_limiter, pc, search_terms, term_idx, all_products,
                   successful_terms, task_result, requests, deadline_exceeded,
                   pending_at_deadline>>

\* ------------------------------------------------------------------------
\* One ingredient task: _search_single_ingredient.

\* Lines 584-594: plan the terms; with no term the loop body never runs.
GenerateSearchTerms(i) ==
    /\ cpc \in {"gathering", "direct"}
    /\ pc[i] = "created"
    /\ LET ai == suggestions[i]
           english_name == ingredients[i].name
           romanian_name == ingredients[i].romanian_name
           terms == generate_search_terms(english_name, romanian_name, ai)
       IN    IF GenerateRaises(english_name, romanian_name, ai)
             THEN /\ pc' = [pc EXCEPT ![i] = "raised"]
                  /\ UNCHANGED <<search_terms, term_idx, all_products, successful_terms,
                                 task_result>>
             ELSE /\ search_terms' = [search_terms EXCEPT ![i] = terms]
                  /\ IF terms = <<>>
                     THEN /\ Finish(i, <<>>, <<>>)
                          /\ UNCHANGED term_idx
                     ELSE /\ pc' = [pc EXCEPT ![i] = "acquire"]
                          /\ term_idx' = [term_idx EXCEPT ![i] = 1]
                          /\ UNCHANGED <<all_products, successful_terms, task_result>>
    /\ UNCHANGED <<aivars, ingredients, suggestions, catalog, validation_data, cpc, session, rate_limiter, requests, response,
                   deadline_exceeded, pending_at_deadline>>

\* A limiter that never blocks.
PermitFreeUnbounded == TRUE

\* asyncio.Semaphore.acquire returns only when a permit is free.
PermitFree == rate_limiter > 0

\* A task that issues the request of its next term together with the
\* current one, without awaiting the answer.
AcquirePermitNoAwait(i) ==
    /\ pc[i] = "acquire"
    /\ session = "open"
    /\ PermitFree
    /\ rate_limiter' = rate_limiter - 1
    /\ pc' = [pc EXCEPT ![i] = "in_flight"]
    /\ term_idx' = [term_idx EXCEPT ![i] = Min(@ + 1, Len(search_terms[i]))]
    /\ UNCHANGED <<aivars, ingredients, suggestions, catalog, validation_data, cpc, session,
                   search_terms, all_products, successful_terms, task_result, requests,
                   response, deadline_exceeded, pending_at_deadline>>

\* A search_product that does not look at the session.
AcquirePermitAnySession(i) ==
    /\ pc[i] = "acquire"
    /\ PermitFree
    /\ rate_limiter' = rate_limiter - 1
    /\ pc' = [pc EXCEPT ![i] = "in_flight"]
    /\ UNCHANGED <<aivars, ingredients, suggestions, catalog, validation_data, cpc, session,
                   search_terms, term_idx, all_products, successful_terms, task_result,
                   requests, response, deadline_exceeded, pending_at_deadline>>

\* search_product, lines 62-74: the session is open, a permit is taken and
\* the GET is issued.
AcquirePermit(i) ==
    /\ pc[i] = "acquire"
    /\ session = "open"
    /\ PermitFree
    /\ rate_limiter' = rate_limiter - 1
    /\ pc' = [pc EXCEPT ![i] = "in_flight"]
    /\ UNCHANGED <<aivars, ingredients, suggestions, catalog, validation_data, cpc, session, search_terms, term_idx, all_products,
                   successful_terms, task_result, requests, response,
                   deadline_exceeded, pending_at_deadline>>

\* A loop that stops at the first term with a product.
BreakLoopFirstSuccess(products, accumulated) == products # <<>>

\* "if len(all_products) >= settings.max_products_per_search: break", inside
\* "if products:".
BreakLoop(products, accumulated) ==
    products # <<>> /\ Len(accumulated) >= max_products_per_search

\* search_product returns `products` (the permit is released on the way
\* out) and the loop body of lines 596-603 runs; `failed` tells a non-200
\* status, a timeout or another exception from a parsed 200 response.
Complete(i, products, failed) ==
    LET term == search_terms[i][term_idx[i]]
        accumulated == IF products # <<>> THEN all_products[i] \o products
                       ELSE all_products[i]
        terms_used == IF products # <<>> THEN Append(successful_terms[i], term)
                      ELSE successful_terms[i]
    IN  /\ pc[i] = "in_flight"
        /\ rate_limiter' = rate_limiter + 1
        /\ requests' = [requests EXCEPT ![i] =
               Append(@, [term |-> term, found |-> Len(products), failed |-> failed])]
        /\ IF BreakLoop(products, accumulated) \/ term_idx[i] = Len(search_terms[i])
           THEN /\ Finish(i, accumulated, terms_used)
                /\ UNCHANGED term_idx
           ELSE /\ pc' = [pc EXCEPT ![i] = "acquire"]
                /\ term_idx' = [term_idx EXCEPT ![i] = @ + 1]
                /\ all_products' = [all_products EXCEPT ![i] = accumulated]
                /\ successful_terms' = [successful_terms EXCEPT ![i] = terms_used]
                /\ UNCHANGED task_result
        /\ UNCHANGED <<aivars, ingredients, suggestions, catalog, validation_data, cpc, session, search_terms, response,
                       deadline_exceeded, pending_at_deadline>>

\* Lines 75-83: a 200 response, parsed.
RespondOk(i) ==
    \E html \in catalog :
        Complete(i, parse_products(html, search_terms[i][term_idx[i]],
                                   max_products_per_search), FALSE)

\* Lines 75-77: a status other than 200.
RespondStatus(i) == Complete(i, <<>>, TRUE)

\* A timeout that escapes search_product and the loop: the task raises.
RespondTimeoutEscapes(i) ==
    /\ pc[i] = "in_flight"
    /\ rate_limiter' = rate_limiter + 1
    /\ requests' = [requests EXCEPT ![i] =
           Append(@, [term |-> search_terms[i][term_idx[i]], found |-> 0,
                      failed |-> TRUE])]
    /\ pc' = [pc EXCEPT ![i] = "raised"]
    /\ UNCHANGED <<aivars, ingredients, suggestions, catalog, validation_data, cpc, session, search_terms, term_idx, all_products,
                   successful_terms, task_result, response, deadline_exceeded,
                   pending_at_deadline>>

\* Lines 85-87: asyncio.TimeoutError (ClientTimeout(total=request_timeout)).
RespondTimeout(i) == Complete(i, <<>>, TRUE)

\* An exception path that leaves search_product without releasing the
\* permit.
RespondErrorKeepsPermit(i) ==
    /\ pc[i] = "in_flight"
    /\ requests' = [requests EXCEPT ![i] =
           Append(@, [term |-> search_terms[i][term_idx[i]], found |-> 0,
                      failed |-> TRUE])]
    /\ IF term_idx[i] = Len(search_terms[i])
       THEN /\ Finish(i, all_products[i], successful_terms[i])
            /\ UNCHANGED term_idx
       ELSE /\ pc' = [pc EXCEPT ![i] = "acquire"]
            /\ term_idx' = [term_idx EXCEPT ![i] = @ + 1]
            /\ UNCHANGED <<all_products, successful_terms, task_result>>
    /\ UNCHANGED <<aivars, ingredients, suggestions, catalog, validation_data, cpc, session,
                   rate_limiter, search_terms, response, deadline_exceeded,
                   pending_at_deadline>>

\* Lines 88-90: any other exception (connection error).
RespondError(i) == Complete(i, <<>>, TRUE)

\* ------------------------------------------------------------------------
\* The coordinator: _execute_concurrent_searches after gather(), then
\* _analyze_search_results and the response document.

Finished(i) == pc[i] \in {"done", "raised"}

\* A collection that fills the list from its other end.
CollectForSwapped(i) ==
    LET j == Len(ingredients) + 1 - i
    IN  IF pc[j] = "raised" THEN PlaceholderResult(ingredients[j]) ELSE task_result[j][1]

\* Lines 564-577: results in input order, a placeholder for a task that
\* raised.
CollectFor(i) ==
    IF pc[i] = "raised" THEN PlaceholderResult(ingredients[i]) ELSE task_result[i][1]

\* Building a placeholder raises (pydantic) when its fields are no str; the
\* exception leaves _execute_concurrent_searches.
PlaceholderRaises(i) ==
    pc[i] = "raised"
    /\ ~ValidResult(ingredients[i].name, <<ingredients[i].romanian_name>>)

RECURSIVE SumFrom(_, _, _)
\* sum(f[k] for k in n..Len(f))
SumFrom(f, n, acc) ==
    IF n > Len(f) THEN acc ELSE SumFrom(f, n + 1, acc + f[n])

\* A rate cut to two decimals instead of rounded.
SuccessRateTruncated(successful, total) ==
    IF total = 0 THEN 0 ELSE (100 * successful) \div total

\* round(successful / total, 2) in hundredths (round() takes a tie to the
\* even neighbour); 0 for an empty list.
SuccessRate(successful, total) ==
    IF total = 0 THEN 0
    ELSE LET q == (100 * successful) \div total
             r == (100 * successful) % total
         IN  IF 2 * r < total THEN q
             ELSE IF 2 * r > total THEN q + 1
             ELSE IF q % 2 = 0 THEN q ELSE q + 1

\* budget_info.get("total_estimated_cost", 100.0), in hundredths.
DefaultBudget == 10000

\* Lines 708-709: the figure the analysis compares the cost with.
ExpectedBudget(document) ==
    LET budget_info == document.budget_analysis
        items == {kv \in budget_info : kv[1] = "total_estimated_cost"}
    IN  IF items # {} THEN (CHOOSE kv \in items : TRUE)[2] ELSE DefaultBudget

\* Lines 711-716.
BudgetCompliance(total_cost, expected_budget) ==
    IF total_cost <= expected_budget THEN "within_budget"
    ELSE IF 10 * total_cost <= 12 * expected_budget THEN "slightly_over"
    ELSE "significantly_over"

\* _analyze_search_results
analyze_search_results(search_results, expected_budget) ==
    LET successful_searches ==
            Cardinality({k \in DOMAIN search_results : search_results[k].search_success})
        total_products_found ==
            SumFrom([k \in DOMAIN search_results |-> search_results[k].total_found], 1, 0)
        total_cost ==
            SumFrom([k \in DOMAIN search_results |->
                       IF search_results[k].best_recommendation # <<>>
                       THEN search_results[k].best_recommendation[1].price ELSE 0], 1, 0)
    IN  [successful_searches |-> successful_searches,
         total_products_found |-> total_products_found,
         total_estimated_cost_ron |-> total_cost,
         success_rate |-> SuccessRate(successful_searches, Len(search_results)),
         budget_compliance |-> BudgetCompliance(total_cost, expected_budget)]

\* gather() has returned: collect, close the session (__aexit__), analyse
\* and return the document; an exception on the way gives the error document.
ReturnBatch ==
    /\ cpc = "gathering"
    /\ \A i \in Tasks : Finished(i)
    /\ session' = "closed"
    /\ cpc' = "returned"
    /\ IF \E i \in Tasks : PlaceholderRaises(i)
       THEN response' = <<ErrorResponse>>
       ELSE LET search_results == [i \in Tasks |-> CollectFor(i)]
                analysis == analyze_search_results(search_results,
                                                   ExpectedBudget(validation_data))
            IN  response' =
                    << [status |-> "success",
                        data |-> search_results,
                        total_searches |-> Len(ingredients),
                        successful_searches |-> analysis.successful_searches,
                        total_products_found |-> analysis.total_products_found,
                        shopping_analysis |-> analysis] >>
    /\ UNCHANGED <<aivars, ingredients, suggestions, catalog, validation_data, rate_limiter, pc, search_terms, term_idx, all_products,
                   successful_terms, task_result, requests, deadline_exceeded,
                   pending_at_deadline>>

\* Time passes: a deadline the caller had for the batch expires while the
\* batch is running.  Nothing in the program reads it.
DeadlineExpires ==
    /\ cpc = "gathering"
    /\ ~deadline_exceeded
    /\ \E i \in Tasks : ~Finished(i)
    /\ deadline_exceeded' = TRUE
    /\ pending_at_deadline' = {i \in Tasks : ~Finished(i)}
    /\ UNCHANGED <<aivars, ingredients, suggestions, catalog, validation_data, cpc, session, rate_limiter, pc, search_terms, term_idx,
                   all_products, successful_terms, task_result, requests, response>>

Next ==
    \/ StartBatch
    \/ \E i \in Tasks : GenerateSearchTerms(i)
    \/ \E i \in Tasks : AcquirePermit(i)
    \/ \E i \in Tasks : RespondOk(i)
    \/ \E i \in Tasks : RespondStatus(i)
    \/ \E i \in Tasks : RespondTimeout(i)
    \/ \E i \in Tasks : RespondError(i)
    \/ ReturnBatch

Spec == Init /\ [][Next]_vars

\* The batch with a caller who has a deadline.
NextWithDeadline ==
    \/ Next
    \/ DeadlineExpires

SpecWithDeadline == Init /\ [][NextWithDeadline]_vars

\* ------------------------------------------------------------------------
\* Further inputs of the same program: each specification below starts the
\* batch call on another family of validation documents and catalogs.

\* The state of a fresh call on the list `batch`.
FreshCall(batch) ==
    /\ cpc = "start"
    /\ session = "none"
    /\ rate_limiter = max_concurrent_requests
    /\ pc = [i \in DOMAIN batch |-> "created"]
    /\ search_terms = [i \in DOMAIN batch |-> <<>>]
    /\ term_idx = [i \in DOMAIN batch |-> 0]
    /\ all_products = [i \in DOMAIN batch |-> <<>>]
    /\ successful_terms = [i \in DOMAIN batch |-> <<>>]
    /\ task_result = [i \in DOMAIN batch |-> <<>>]
    /\ requests = [i \in DOMAIN batch |-> <<>>]
    /\ response = <<>>
    /\ deadline_exceeded = FALSE
    /\ pending_at_deadline = {}
    /\ AIFresh

\* Largest batch of the cost analysis.
AnalysisIngredients == 3

\* The store holds the one product at one of two prices.
AnalysisPages ==
    { << [name |-> <<"a">>, price |-> 100] >>,
      << [name |-> <<"a">>, price |-> 120] >> }

\* Cost analysis: up to AnalysisIngredients ingredients of one search term
\* each (the names differ in case only and the suggestion call fails), any
\* budget_analysis in the validation document.
InitAnalysis ==
    /\ ingredients \in UNION {[1..n -> {[name |-> <<"A">>, romanian_name |-> <<"a">>]}] :
                                n \in 1..AnalysisIngredients}
    /\ suggestions = [i \in DOMAIN ingredients |-> [error |-> TRUE, additional_terms |-> <<>>]]
    /\ catalog = AnalysisPages
    /\ validation_data \in {[status |-> "success", budget_analysis |-> b] :
                               b \in BudgetAnalyses}
    /\ FreshCall(ingredients)

SpecAnalysis == InitAnalysis /\ [][Next]_vars

\* Ranking: catalog pages whose products repeat across pages (also with
\* another case) and match the terms to different degrees, and a page of
\* blocks without a name or a usable price.
RankPages ==
    { << [name |-> <<"c">>, price |-> 120] >>,
      << [name |-> <<"a", " ", "b">>, price |-> 250],
         [name |-> <<"a">>, price |-> 120] >>,
      << [name |-> <<"A">>, price |-> 120],
         [name |-> <<"a">>, price |-> 120] >>,
      << [name |-> <<>>, price |-> 150],
         [name |-> <<"a">>, price |-> 0],
         [name |-> <<"b">>, price |-> NoPrice] >> }

\* What the suggestion call answers in the ranking specification.
RankResponses ==
    { [error |-> FALSE, additional_terms |-> << <<"c">> >>],
      [error |-> FALSE, additional_terms |-> << <<"A">>, <<"b", " ", "c">> >>] }

\* One ingredient of three planned terms.
InitRank ==
    /\ ingredients = << [name |-> <<"b">>, romanian_name |-> <<"a">>] >>
    /\ suggestions \in [DOMAIN ingredients -> RankResponses]
    /\ catalog = RankPages
    /\ validation_data = [status |-> "success", budget_analysis |-> {}]
    /\ FreshCall(ingredients)

SpecRank == InitRank /\ [][Next]_vars

\* Planning: one ingredient, its names present, empty or null, and
\* suggestion lists that repeat terms in another case, hold an empty term
\* or bring the candidates above MaxSearchTerms.
PlannerIngredients ==
    IngredientPool \cup { [name |-> <<"b">>, romanian_name |-> <<>>] }

PlannerResponses ==
    AIResponses \cup
    { [error |-> FALSE, additional_terms |->
          << <<"c">>, <<"d">>, <<"e">>, <<"f">> >>],
      [error |-> FALSE, additional_terms |-> << <<"b">>, <<"c">>, <<"b">> >>],
      [error |-> FALSE, additional_terms |->
          << <<"B">>, <<"c">>, <<"C">>, <<>>, <<"d">>, <<"e">>, <<"f">> >>] }

InitPlanner ==
    /\ ingredients \in [1..1 -> PlannerIngredients]
    /\ suggestions \in [DOMAIN ingredients -> PlannerResponses]
    /\ catalog = RawPages
    /\ validation_data = [status |-> "success", budget_analysis |-> {}]
    /\ FreshCall(ingredients)

SpecPlanner == InitPlanner /\ [][Next]_vars

\* Permits of the limiter in the overlap specification
\* (BRINGO_MAX_CONCURRENT_REQUESTS).
OverlapPermits == 2

\* Overlap: two ingredients of two planned terms each and a limiter that
\* lets both fetch at once.
InitOverlap ==
    /\ ingredients = [i \in 1..2 |-> [name |-> <<"b">>, romanian_name |-> <<"a">>]]
    /\ suggestions = [i \in DOMAIN ingredients |-> [error |-> TRUE, additional_terms |-> <<>>]]
    /\ catalog = RawPages
    /\ validation_data = [status |-> "success", budget_analysis |-> {}]
    /\ cpc = "start"
    /\ session = "none"
    /\ rate_limiter = OverlapPermits
    /\ pc = [i \in DOMAIN ingredients |-> "created"]
    /\ search_terms = [i \in DOMAIN ingredients |-> <<>>]
    /\ term_idx = [i \in DOMAIN ingredients |-> 0]
    /\ all_products = [i \in DOMAIN ingredients |-> <<>>]
    /\ successful_terms = [i \in DOMAIN ingredients |-> <<>>]
    /\ task_result = [i \in DOMAIN ingredients |-> <<>>]
    /\ requests = [i \in DOMAIN ingredients |-> <<>>]
    /\ response = <<>>
    /\ deadline_exceeded = FALSE
    /\ pending_at_deadline = {}
    /\ AIFresh

SpecOverlap == InitOverlap /\ [][Next]_vars

\* Relevance: search terms of one, two and three words, in mixed case, and
\* one of blanks only; product names that hold a term as a substring, share
\* some of its words or none.
RelevanceTerms ==
    { <<"a">>, <<"B", " ", "c">>, <<"a", " ", "b", " ", "c">>, <<" ", " ">> }

RelevancePages ==
    { << [name |-> <<"c", " ", "b", " ", "a">>, price |-> 100],
         [name |-> <<"A", " ", "b">>, price |-> 250] >>,
      << [name |-> <<"a", "b">>, price |-> 120],
         [name |-> <<"c">>, price |-> 120] >> }

\* Two ingredients, each searched by its Romanian name alone.
InitRelevance ==
    /\ ingredients \in [1..2 -> {[name |-> <<>>, romanian_name |-> t] : t \in RelevanceTerms}]
    /\ suggestions = [i \in DOMAIN ingredients |-> [error |-> TRUE, additional_terms |-> <<>>]]
    /\ catalog = RelevancePages
    /\ validation_data = [status |-> "success", budget_analysis |-> {}]
    /\ FreshCall(ingredients)

SpecRelevance == InitRelevance /\ [][Next]_vars

\* Scenario A: the ingredient "spaghetti" and a catalog that answers with
\* "Barilla Spaghetti 500g" at 8.99 and "Spaghete Napolitan" at 5.49.
Spaghetti == <<"s", "p", "a", "g", "h", "e", "t", "t", "i">>

BarillaSpaghetti == <<"B", "a", "r", "i", "l", "l", "a", " ", "S", "p", "a", "g", "h", "e", "t", "t", "i", " ", "5", "0", "0", "g">>

SpagheteNapolitan == <<"S", "p", "a", "g", "h", "e", "t", "e", " ", "N", "a", "p", "o", "l", "i", "t", "a", "n">>

ScenarioPage ==
    << [name |-> BarillaSpaghetti, price |-> 899],
       [name |-> SpagheteNapolitan, price |-> 549] >>

\* One or two requests for the ingredient; the suggestion call fails or
\* suggests the Romanian spelling.
InitScenario ==
    /\ ingredients \in UNION {[1..n -> {[name |-> Spaghetti, romanian_name |-> Spaghetti]}] :
                                n \in 1..2}
    /\ suggestions \in [DOMAIN ingredients ->
                           { [error |-> TRUE, additional_terms |-> <<>>],
                             [error |-> FALSE, additional_terms |->
                                 << SubSeq(SpagheteNapolitan, 1, 8) >>] }]
    /\ catalog = {ScenarioPage}
    /\ validation_data = [status |-> "success", budget_analysis |-> {}]
    /\ FreshCall(ingredients)

SpecScenario == InitScenario /\ [][Next]_vars

\* _extract_search_ingredients: the entries of
\* automatic_selection_data...selected_ingredients, then those of data (the
\* validations), a missing key read as "".
extract_search_ingredients(document) ==
    [k \in DOMAIN document.selected_ingredients |->
        [name |-> document.selected_ingredients[k].name,
         romanian_name |-> document.selected_ingredients[k].romanian_name]]
    \o [k \in DOMAIN document.data |->
          [name |-> document.data[k].ingredient,
           romanian_name |-> document.data[k].romanian_name]]

\* The lists a validation document carries: the upstream selection writes
\* its ingredients into selected_ingredients and their validations into
\* data; either may be missing.
SelectedLists ==
    { <<>>,
      << [name |-> <<"A">>, romanian_name |-> <<"a">>] >>,
      << [name |-> <<"A">>, romanian_name |-> <<"a">>],
         [name |-> <<"c">>, romanian_name |-> <<"c">>] >> }

ValidationLists ==
    { <<>>,
      << [ingredient |-> <<"A">>, romanian_name |-> <<"a">>] >>,
      << [ingredient |-> <<"A">>, romanian_name |-> <<"a">>],
         [ingredient |-> <<"c">>, romanian_name |-> <<"c">>] >> }

\* Extraction: the batch call is given a document with both lists and
\* searches the ingredients extracted from it.
InitExtraction ==
    /\ validation_data \in
          {[status |-> "success", budget_analysis |-> {},
            selected_ingredients |-> sel, data |-> val] :
              sel \in SelectedLists, val \in ValidationLists}
    /\ ingredients = extract_search_ingredients(validation_data)
    /\ suggestions = [i \in DOMAIN ingredients |-> [error |-> TRUE, additional_terms |-> <<>>]]
    /\ catalog = RawPages
    /\ FreshCall(ingredients)

SpecExtraction == InitExtraction /\ [][Next]_vars

\* Ingredients of the batch that queues at the limiter.
FairIngredients == 2

\* More ingredients than permits: the first has two planned terms, the
\* others one; the store answers with a page holding a product or with a
\* page without a well-formed block.
InitFair ==
    /\ ingredients = [i \in 1..FairIngredients |->
                         [name |-> IF i = 1 THEN <<"b">> ELSE <<"A">>, romanian_name |-> <<"a">>]]
    /\ suggestions = [i \in DOMAIN ingredients |-> [error |-> TRUE, additional_terms |-> <<>>]]
    /\ catalog = {page \in RawPages : Len(page) = 1 \/ page[1].name = <<>>}
    /\ validation_data = [status |-> "success", budget_analysis |-> {}]
    /\ FreshCall(ingredients)

\* The event loop runs a task that is ready, and every request issued is
\* answered or times out (ClientTimeout(total=request_timeout)): a step
\* that stays possible is eventually taken.
SpecFair == InitFair /\ [][Next]_vars /\ WF_vars(Next)

\* ------------------------------------------------------------------------
\* BringoSearchClient used by a caller of its own: the tasks
\* _search_single_ingredient(client, ingredient) run on a client that the
\* caller has or has not entered.

\* __aenter__, lines 36-45.
ClientEnter ==
    /\ cpc = "direct"
    /\ session = "none"
    /\ session' = "open"
    /\ UNCHANGED <<aivars, ingredients, suggestions, catalog, validation_data, cpc, rate_limiter, pc,
                   search_terms, term_idx, all_products, successful_terms, task_result,
                   requests, response, deadline_exceeded, pending_at_deadline>>

\* __aexit__, lines 47-49, at the end of the caller's "async with" block.
ClientExit ==
    /\ cpc = "direct"
    /\ session = "open"
    /\ \A i \in Tasks : Finished(i)
    /\ session' = "closed"
    /\ UNCHANGED <<aivars, ingredients, suggestions, catalog, validation_data, cpc, rate_limiter, pc,
                   search_terms, term_idx, all_products, successful_terms, task_result,
                   requests, response, deadline_exceeded, pending_at_deadline>>

\* search_product, lines 62-63: "if not self.session: raise RuntimeError";
\* the exception leaves the task.
SearchProductNoSession(i) ==
    /\ pc[i] = "acquire"
    /\ session = "none"
    /\ pc' = [pc EXCEPT ![i] = "raised"]
    /\ UNCHANGED <<aivars, ingredients, suggestions, catalog, validation_data, cpc, session,
                   rate_limiter, search_terms, term_idx, all_products, successful_terms,
                   task_result, requests, response, deadline_exceeded, pending_at_deadline>>

\* Two ingredients of two terms each, searched by the batch call or by a
\* caller with a client of its own.
InitSession ==
    /\ ingredients = [i \in 1..2 |-> [name |-> <<"b">>, romanian_name |-> <<"a">>]]
    /\ suggestions = [i \in DOMAIN ingredients |-> [error |-> TRUE, additional_terms |-> <<>>]]
    /\ catalog = RawPages
    /\ validation_data = [status |-> "success", budget_analysis |-> {}]
    /\ cpc \in {"start", "direct"}
    /\ session = "none"
    /\ rate_limiter = max_concurrent_requests
    /\ pc = [i \in DOMAIN ingredients |-> "created"]
    /\ search_terms = [i \in DOMAIN ingredients |-> <<>>]
    /\ term_idx = [i \in DOMAIN ingredients |-> 0]
    /\ all_products = [i \in DOMAIN ingredients |-> <<>>]
    /\ successful_terms = [i \in DOMAIN ingredients |-> <<>>]
    /\ task_result = [i \in DOMAIN ingredients |-> <<>>]
    /\ requests = [i \in DOMAIN ingredients |-> <<>>]
    /\ response = <<>>
    /\ deadline_exceeded = FALSE
    /\ pending_at_deadline = {}
    /\ AIFresh

NextSession ==
    \/ Next
    \/ ClientEnter
    \/ ClientExit
    \/ \E i \in Tasks : SearchProductNoSession(i)

SpecSession == InitSession /\ [][NextSession]_vars

\* ------------------------------------------------------------------------
\* shared/client.py: the AI client that term generation obtains with
\* get_ai_client() and calls with generate_text().  initialize,
\* _test_connection and generate_text call one another without suspending,
\* so the coroutine frames form a stack.

\* Depth of coroutine frames at which a further call raises RecursionError
\* (the interpreter's recursion limit, scaled down).
RecursionLimit == 10

\* Calls of generate_text that term generation makes after get_ai_client().
MaxUses == 2

searchvars == <<ingredients, suggestions, catalog, validation_data, cpc, session,
                rate_limiter, pc, search_terms, term_idx, all_products, successful_terms,
                task_result, requests, response, deadline_exceeded, pending_at_deadline>>

Frame(fn, at) == [fn |-> fn, at |-> at]

Top == call_stack[Len(call_stack)]

Running(fn, at) == call_stack # <<>> /\ Top = Frame(fn, at)

InitializeFrames == {k \in DOMAIN call_stack : call_stack[k].fn = "initialize"}

\* The innermost frame ends and hands `value` to its caller.
Return(value) ==
    /\ call_stack' = SubSeq(call_stack, 1, Len(call_stack) - 1)
    /\ returned' = value

\* The innermost frame calls fn and waits for it at `at`.
Call(at, fn) ==
    /\ call_stack' = Append([call_stack EXCEPT ![Len(call_stack)].at = at], Frame(fn, "enter"))
    /\ returned' = "none"

\* An exception leaves the innermost frame: it unwinds to the innermost
\* initialize, whose "except Exception" (lines 60-62) returns False.
Raise ==
    LET handler == CHOOSE k \in InitializeFrames : \A j \in InitializeFrames : j <= k
    IN  /\ call_stack' = SubSeq(call_stack, 1, handler - 1)
        /\ returned' = "False"

\* What a generation answers: the text the connection test expects, another
\* text, or the error document whose content is None (lines 137-146).
Responses == {"connection_test_successful", "other", "error"}

\* get_ai_client, lines 330-336: the global is created and initialize is
\* awaited.
GetAiClient ==
    /\ call_stack = <<>>
    /\ ai_client = "None"
    /\ ai_client' = "instance"
    /\ call_stack' = <<Frame("get_ai_client", "await_initialize"), Frame("initialize", "enter")>>
    /\ returned' = "none"
    /\ UNCHANGED <<client_set, initialized, generations, uses, searchvars>>

\* get_ai_client, line 338: the instance is returned whatever initialize
\* returned.
GetAiClientReturn ==
    /\ Running("get_ai_client", "await_initialize")
    /\ returned \in {"True", "False"}
    /\ Return("client")
    /\ UNCHANGED <<ai_client, client_set, initialized, generations, uses, searchvars>>

\* initialize, lines 40-56: return True when already initialized; otherwise
\* build the genai client (which may raise) and await _test_connection.
InitializeEnter ==
    /\ Running("initialize", "enter")
    /\ IF initialized
       THEN Return("True") /\ UNCHANGED client_set
       ELSE \/ Return("False") /\ UNCHANGED client_set
            \/ /\ client_set' = TRUE
               /\ IF Len(call_stack) >= RecursionLimit
                  THEN Return("False")
                  ELSE Call("await_test", "_test_connection")
    /\ UNCHANGED <<ai_client, initialized, generations, uses, searchvars>>

\* initialize, lines 57-59: the connection test returned.
InitializeAfterTest ==
    /\ Running("initialize", "await_test")
    /\ returned = "None"
    /\ initialized' = TRUE
    /\ Return("True")
    /\ UNCHANGED <<ai_client, client_set, generations, uses, searchvars>>

\* _test_connection, lines 64-69: await generate_text.
TestConnectionCall ==
    /\ Running("_test_connection", "enter")
    /\ IF Len(call_stack) >= RecursionLimit
       THEN Raise
       ELSE Call("await_response", "generate_text")
    /\ UNCHANGED <<ai_client, client_set, initialized, generations, uses, searchvars>>

\* _test_connection, lines 70-71: the expected text is looked for in the
\* content; another text raises Exception, a None content raises TypeError.
TestConnectionCheck ==
    /\ Running("_test_connection", "await_response")
    /\ returned \in Responses
    /\ IF returned = "connection_test_successful"
       THEN Return("None")
       ELSE Raise
    /\ UNCHANGED <<ai_client, client_set, initialized, generations, uses, searchvars>>

\* generate_text, lines 101-102: "if not self._initialized: await
\* self.initialize()".
GenerateTextEnter ==
    /\ Running("generate_text", "enter")
    /\ IF initialized
       THEN /\ call_stack' = [call_stack EXCEPT ![Len(call_stack)].at = "check_client"]
            /\ UNCHANGED returned
       ELSE IF Len(call_stack) >= RecursionLimit
            THEN Raise
            ELSE Call("await_initialize", "initialize")
    /\ UNCHANGED <<ai_client, client_set, initialized, generations, uses, searchvars>>

\* generate_text, line 102: the value of initialize() is dropped.
GenerateTextAfterInitialize ==
    /\ Running("generate_text", "await_initialize")
    /\ returned \in {"True", "False"}
    /\ call_stack' = [call_stack EXCEPT ![Len(call_stack)].at = "check_client"]
    /\ returned' = "none"
    /\ UNCHANGED <<ai_client, client_set, initialized, generations, uses, searchvars>>

\* generate_text, lines 104-146: without a client the error document is
\* returned; otherwise one generation is issued and its answer, or the error
\* document of a failed generation, is returned.
GenerateTextRespond ==
    /\ Running("generate_text", "check_client")
    /\ IF ~client_set
       THEN Return("error") /\ UNCHANGED generations
       ELSE /\ generations' = generations + 1
            /\ \E answer \in Responses : Return(answer)
    /\ UNCHANGED <<ai_client, client_set, initialized, uses, searchvars>>

\* _generate_search_terms, product_search/tools.py lines 653-657: term
\* generation calls generate_text on the instance it obtained.
UseClient ==
    /\ call_stack = <<>>
    /\ ai_client = "instance"
    /\ uses < MaxUses
    /\ uses' = uses + 1
    /\ call_stack' = <<Frame("generate_text", "enter")>>
    /\ returned' = "none"
    /\ UNCHANGED <<ai_client, client_set, initialized, generations, searchvars>>

\* The AI client before its first use, the product search idle.
InitAIClient ==
    /\ ingredients = <<[name |-> <<"b">>, romanian_name |-> <<"a">>]>>
    /\ suggestions = [i \in DOMAIN ingredients |-> [error |-> TRUE, additional_terms |-> <<>>]]
    /\ catalog = RawPages
    /\ validation_data = [status |-> "success", budget_analysis |-> {}]
    /\ FreshCall(ingredients)

NextAIClient ==
    \/ GetAiClient
    \/ GetAiClientReturn
    \/ InitializeEnter
    \/ InitializeAfterTest
    \/ TestConnectionCall
    \/ TestConnectionCheck
    \/ GenerateTextEnter
    \/ GenerateTextAfterInitialize
    \/ GenerateTextRespond
    \/ UseClient

SpecAIClient == InitAIClient /\ [][NextAIClient]_vars

TypeOK ==
    /\ cpc \in {"start", "gathering", "returned", "direct"}
    /\ session \in {"none", "open", "closed"}
    /\ rate_limiter \in Int
    /\ \A i \in Tasks : pc[i] \in {"created", "acquire", "in_flight", "done", "raised"}
    /\ deadline_exceeded \in BOOLEAN

\* ------------------------------------------------------------------------
\* Properties.

InFlight == {i \in Tasks : pc[i] = "in_flight"}

AttemptedTerms(i) == [k \in DOMAIN requests[i] |-> requests[i][k].term]

Returned == cpc = "returned" /\ response # <<>>

ReturnedBatch == Returned /\ response[1].status = "success"

\* C1: at every instant the number of catalog requests in flight is at most
\* the concurrency limit max_concurrent_requests.
C1_InFlightAtMostLimit == Cardinality(InFlight) <= max_concurrent_requests

\* The limit is reached while another task waits for a permit.
C1_Witness ==
    /\ Cardinality(InFlight) = max_concurrent_requests
    /\ \E i \in Tasks : pc[i] = "acquire"

\* C2: once a term of an ingredient has returned at least one candidate, no
\* later term is fetched for that ingredient.
C2_StopsAtFirstSuccess ==
    \A i \in Tasks : \A k \in DOMAIN requests[i] :
        requests[i][k].found >= 1 => (k = Len(requests[i]) /\ pc[i] # "in_flight")

\* C3: the recorded history of a result is the list of terms attempted,
\* failed ones included, and that list is the planned list cut just after
\* the first successful term.
C3_HistoryRecordsEveryAttempt ==
    \A i \in Tasks : pc[i] = "done" =>
        /\ task_result[i][1].search_terms_used = AttemptedTerms(i)
        /\ AttemptedTerms(i) = SubSeq(search_terms[i], 1, Len(requests[i]))
        /\ \A k \in DOMAIN requests[i] : k < Len(requests[i]) => requests[i][k].found = 0
        /\ Len(requests[i]) < Len(search_terms[i]) =>
              requests[i][Len(requests[i])].found >= 1

\* C4: a failed ingredient (exhausted, all calls failing, or its task
\* raising) never fails the batch: the batch returns its document, the
\* failed ingredient has a failed result in it and every other ingredient
\* has the result its task returned.
C4_FailureNeverFailsBatch ==
    (Returned /\ ingredients # <<>>) =>
        /\ response[1].status = "success"
        /\ \A i \in Tasks :
              /\ (pc[i] = "raised" => ~response[1].data[i].search_success)
              /\ (pc[i] = "done" => response[1].data[i] = task_result[i][1])

\* The per-ingredient results produced so far: those returned by tasks and
\* those of the batch document (placeholders included).
AllResults ==
    {task_result[i][1] : i \in {j \in Tasks : task_result[j] # <<>>}}
    \cup (IF ReturnedBatch THEN Range(response[1].data) ELSE {})

\* C5: in every per-ingredient result, normal or placeholder, the success
\* flag is true if and only if the best candidate is non-null.
C5_SuccessIffBest ==
    \A r \in AllResults : r.search_success <=> r.best_recommendation # <<>>

\* A returned batch holds a placeholder and a successful result.
C5_Witness ==
    /\ ReturnedBatch
    /\ \E i \in Tasks : pc[i] = "raised"
    /\ \E j \in Tasks : response[1].data[j].search_success

C7_ExhaustedHistoryIsFull ==
    \A i \in Tasks :
        (pc[i] = "done" /\ (\A k \in DOMAIN requests[i] : requests[i][k].found = 0)) =>
            /\ Len(requests[i]) = Len(search_terms[i])
            /\ ~task_result[i][1].search_success
            /\ task_result[i][1].best_recommendation = <<>>
            /\ Len(task_result[i][1].search_terms_used) = Len(search_terms[i])

\* C8: a request that ends in a timeout, a connection error or a non-200
\* status counts as zero candidates for its term and does not abort the
\* ingredient: when the term was not the last planned one, the task goes on
\* to the next term.
C8_NetworkFailureIsZeroCandidates ==
    \A i \in Tasks : \A k \in DOMAIN requests[i] :
        requests[i][k].failed =>
            /\ requests[i][k].found = 0
            /\ (k < Len(search_terms[i]) =>
                  \/ Len(requests[i]) > k
                  \/ (term_idx[i] = k + 1 /\ pc[i] \in {"acquire", "in_flight"}))
            /\ (k = Len(search_terms[i]) /\ IsStr(ingredients[i].name) => pc[i] = "done")

\* After a failed request the next term of the same ingredient was fetched.
C8_Witness ==
    \E i \in Tasks : \E k \in DOMAIN requests[i] :
        requests[i][k].failed /\ Len(requests[i]) > k

\* C9: a term whose request failed transiently is requested again, and is
\* given up only after max_retry_attempts further requests have failed.
C9_TransientFailureIsRetried ==
    \A i \in Tasks : \A k \in DOMAIN requests[i] :
        (requests[i][k].failed /\ (Len(requests[i]) > k \/ Finished(i))) =>
            Cardinality({j \in DOMAIN requests[i] :
                            /\ requests[i][j].term = requests[i][k].term
                            /\ requests[i][j].failed}) >= 1 + max_retry_attempts

\* C10: when the batch's deadline is exceeded, every ingredient still
\* pending is recorded as a failed result whose reason is "cancelled".
C10_DeadlineCancelsPending ==
    (Returned /\ deadline_exceeded) =>
        /\ response[1].status = "success"
        /\ \A i \in pending_at_deadline :
              /\ ~response[1].data[i].search_success
              /\ "reason" \in DOMAIN response[1].data[i]
              /\ response[1].data[i].reason = "cancelled"


\* C11: for every input the batch call returns a complete batch document:
\* a success document holding one result per requested ingredient, in input
\* order, a failure being flagged in the result of its ingredient; no
\* validation, network, parse or exhaustion failure replaces the document
\* with a bare error.
C11_AlwaysCompleteBatch ==
    Returned =>
        /\ response[1].status = "success"
        /\ DOMAIN response[1].data = DOMAIN ingredients
        /\ \A i \in Tasks :
              /\ response[1].data[i].ingredient = ingredients[i].name
              /\ (pc[i] = "raised" => ~response[1].data[i].search_success)

\* A name the validation of an ingredient request rejects: missing, empty
\* or no string.
InvalidName(name) == ~Truthy(name) \/ ~IsStr(name)

\* C12: an ingredient with an empty or invalid name fails immediately: no
\* catalog request is ever issued for it, and the batch holds a failed
\* result for it.
C12_InvalidNameNeverFetched ==
    \A i \in Tasks :
        InvalidName(ingredients[i].name) =>
            /\ pc[i] \notin {"acquire", "in_flight"}
            /\ requests[i] = <<>>
            /\ (ReturnedBatch => ~response[1].data[i].search_success)


\* The aggregate figures of a returned batch and what they are computed of.
Analysis == response[1].shopping_analysis

SuccessfulResults == {i \in Tasks : response[1].data[i].search_success}

BestPrices ==
    [i \in Tasks |-> IF i \in SuccessfulResults
                     THEN response[1].data[i].best_recommendation[1].price ELSE 0]

C14_TagAgainstSuppliedBudget ==
    ReturnedBatch =>
        \A kv \in validation_data.budget_analysis :
            LET budget == kv[2]
                total_cost == Analysis.total_estimated_cost_ron
                tag == Analysis.budget_compliance
            IN  /\ tag = "within_budget" <=> total_cost <= budget
                /\ tag = "slightly_over" <=>
                       (budget < total_cost /\ 10 * total_cost <= 12 * budget)
                /\ tag = "significantly_over" <=> 10 * total_cost > 12 * budget


\* The candidates an ingredient's task retains: its deduplicated list.
Retained(i) == Range(deduplicate_products(all_products[i]))

\* p ranks strictly before q: higher relevance, or equal relevance and a
\* lower price.
RanksBefore(p, q) ==
    \/ p.relevance_score > q.relevance_score
    \/ (p.relevance_score = q.relevance_score /\ p.price < q.price)

\* C15: in every successful result the best candidate is element 0 of the
\* returned list and no retained candidate ranks strictly before it.
C15_BestIsTopRanked ==
    \A i \in Tasks :
        (task_result[i] # <<>> /\ task_result[i][1].search_success) =>
            LET r == task_result[i][1]
            IN  /\ r.best_recommendation = <<r.products_found[1]>>
                /\ r.best_recommendation[1] \in Retained(i)
                /\ \A p \in Retained(i) : ~RanksBefore(p, r.best_recommendation[1])

\* A successful result merging the candidates of two terms, the first
\* candidate found being less relevant than the best.
C15_Witness ==
    \E i \in Tasks :
        /\ task_result[i] # <<>>
        /\ Len(task_result[i][1].search_terms_used) >= 2
        /\ all_products[i][1].relevance_score
              < task_result[i][1].best_recommendation[1].relevance_score

\* C16: in every candidate list returned for an ingredient, adjacent
\* candidates are in order: relevance descending and, on equal relevance,
\* price ascending.
C16_ListIsRanked ==
    \A r \in AllResults :
        \A k \in 1..(Len(r.products_found) - 1) :
            LET p == r.products_found[k]
                q == r.products_found[k + 1]
            IN  /\ p.relevance_score >= q.relevance_score
                /\ (p.relevance_score = q.relevance_score => p.price <= q.price)

\* A returned list merged from two terms whose candidates were found in
\* another order than the ranked one.
C16_Witness ==
    \E i \in Tasks :
        /\ task_result[i] # <<>>
        /\ Len(task_result[i][1].search_terms_used) >= 2
        /\ Len(task_result[i][1].products_found) >= 2
        /\ task_result[i][1].products_found
              # Take(deduplicate_products(all_products[i]), max_products_per_search)

\* C17: no candidate list returned for an ingredient holds two candidates
\* of the same name and price.
C17_NoDuplicatePair ==
    \A r \in AllResults :
        \A j, k \in DOMAIN r.products_found :
            (r.products_found[j].name = r.products_found[k].name
             /\ r.products_found[j].price = r.products_found[k].price) => j = k

\* Two terms of an ingredient returned the same product and the result
\* holds it once.
C17_Witness ==
    \E i \in Tasks :
        /\ task_result[i] # <<>>
        /\ \E j, k \in DOMAIN all_products[i] :
              /\ j < k
              /\ all_products[i][j].name = all_products[i][k].name
              /\ all_products[i][j].price = all_products[i][k].price
        /\ task_result[i][1].total_found < Len(all_products[i])
        /\ task_result[i][1].search_success


\* A candidate the extraction may keep: it has a name and a price > 0.
WellFormed(p) == p.name # <<>> /\ p.price # NoPrice /\ p.price > 0

\* C18: no candidate with a missing name, an unparseable price or a price
\* <= 0 is ever retained: every candidate of every extracted list, of every
\* returned list and in every best-candidate slot has a name and a price
\* > 0.
C18_OnlyWellFormedRetained ==
    /\ \A i \in Tasks : \A k \in DOMAIN all_products[i] : WellFormed(all_products[i][k])
    /\ \A r \in AllResults :
          /\ \A k \in DOMAIN r.products_found : WellFormed(r.products_found[k])
          /\ \A k \in DOMAIN r.best_recommendation : WellFormed(r.best_recommendation[k])

\* A page was parsed whose blocks were all discarded (no name, price 0, no
\* price), and a later term of the ingredient gave its result a best
\* candidate.
C18_Witness ==
    \E i \in Tasks :
        /\ \E k \in DOMAIN requests[i] :
              requests[i][k].found = 0 /\ ~requests[i][k].failed
        /\ task_result[i] # <<>>
        /\ task_result[i][1].best_recommendation # <<>>


\* The planner has returned a list for ingredient i.
Planned(i) ==
    /\ pc[i] # "created"
    /\ ~GenerateRaises(ingredients[i].name, ingredients[i].romanian_name, suggestions[i])

\* The term-suggestion call supplied nothing for ingredient i.
NoSuggestions(i) == suggestions[i].error \/ suggestions[i].additional_terms = <<>>

\* C19: the planned list of every ingredient request is non-empty; with no
\* alternate name and no suggested term (also when the suggestion call
\* fails) it is the raw ingredient name alone.
C19_PlannedListNonEmpty ==
    \A i \in Tasks :
        Planned(i) =>
            /\ search_terms[i] # <<>>
            /\ ((NoSuggestions(i) /\ ~Truthy(ingredients[i].romanian_name))
                    => search_terms[i] = <<ingredients[i].name>>)

\* The planner's input sequence: the primary (Romanian) name, the alternate
\* (English) name kept as fallback, then the suggested terms.
PlannerInput(i) ==
    <<ingredients[i].romanian_name, ingredients[i].name>>
        \o (IF suggestions[i].error THEN <<>> ELSE suggestions[i].additional_terms)

\* Positions of the input holding a term (not empty, not null) that no
\* earlier position holds, case ignored.
FirstOccurrences(input) ==
    {k \in DOMAIN input :
        /\ Truthy(input[k])
        /\ \A j \in 1..(k - 1) : Lower(input[j]) # Lower(input[k])}

\* C20: the planned list is the first 5 entries of the order-preserving,
\* case-insensitive deduplication of the input sequence: its n-th term is
\* the n-th first occurrence of the input, no two terms are equal ignoring
\* case and there are at most 5.
C20_FirstFiveOfDedup ==
    \A i \in Tasks :
        Planned(i) =>
            LET input == PlannerInput(i)
                first == FirstOccurrences(input)
                out == search_terms[i]
            IN  /\ Len(out) = Min(MaxSearchTerms, Cardinality(first))
                /\ \A n \in DOMAIN out :
                      \E k \in first :
                          /\ Cardinality({j \in first : j <= k}) = n
                          /\ out[n] = input[k]
                /\ \A m, n \in DOMAIN out :
                      Lower(out[m]) = Lower(out[n]) => m = n

\* Nine input entries with repeats in another case and an empty term give
\* six unique terms, of which the first five are planned.
C20_Witness ==
    \E i \in Tasks :
        /\ Planned(i)
        /\ Len(PlannerInput(i)) = 9
        /\ Cardinality(FirstOccurrences(PlannerInput(i))) = 6
        /\ search_terms[i] = << <<"a">>, <<"b">>, <<"c">>, <<"d">>, <<"e">> >>


\* The terms submitted to the catalog for ingredient i so far, the one in
\* flight included.
IssuedTerms(i) ==
    AttemptedTerms(i) \o (IF pc[i] = "in_flight" THEN <<search_terms[i][term_idx[i]]>>
                          ELSE <<>>)

\* C21: within the resolution of one ingredient no search term is
\* submitted to the catalog more than once.
C21_NoTermFetchedTwice ==
    \A i \in Tasks :
        \A j, k \in DOMAIN IssuedTerms(i) :
            IssuedTerms(i)[j] = IssuedTerms(i)[k] => j = k

\* Three terms were fetched for an ingredient whose planner input repeats
\* a term.
C21_Witness ==
    \E i \in Tasks :
        /\ Len(requests[i]) >= 3
        /\ \E j, k \in DOMAIN PlannerInput(i) :
              j < k /\ Truthy(PlannerInput(i)[j]) /\ PlannerInput(i)[j] = PlannerInput(i)[k]


\* C22: the terms of one ingredient are fetched strictly one after the
\* other: when the request of its n-th term is about to be issued or in
\* flight, the requests of its n - 1 earlier terms have completed, so at
\* most one request of the ingredient is in flight.
C22_TermsFetchedSequentially ==
    \A i \in Tasks :
        pc[i] \in {"acquire", "in_flight"} =>
            /\ Len(requests[i]) = term_idx[i] - 1
            /\ \A k \in DOMAIN requests[i] : requests[i][k].term = search_terms[i][k]

\* Two ingredients have a request in flight at once, one of them for its
\* second term.
C22_Witness ==
    /\ \A i \in Tasks : pc[i] = "in_flight"
    /\ Cardinality(Tasks) = 2
    /\ \E i \in Tasks : term_idx[i] = 2 /\ Len(requests[i]) = 1


\* The case-folded term is a substring of the case-folded name.
TermInName(term, name) == Contains(Lower(name), Lower(term))

\* The words of the term that are words of the name, case ignored.
Overlap(term, name) == Words(Lower(term)) \cap Words(Lower(name))

\* The candidates of ingredient i, all scored against its only term.
ScoredAgainst(i) ==
    IF Len(search_terms[i]) = 1 THEN Range(all_products[i]) ELSE {}

\* C23: the relevance score of a candidate is exactly 1.0 when the
\* case-folded term is a substring of the case-folded name; otherwise it is
\* |term_words /\ name_words| / |term_words|, and 0 when the term has no
\* words; it lies in [0, 1] and, for a fixed term, does not decrease when
\* the set of overlapping words grows.
C23_RelevanceScore ==
    \A i \in Tasks :
        LET term == search_terms[i][1]
            term_words == Words(Lower(term))
        IN  \A p \in ScoredAgainst(i) :
                /\ p.relevance_score >= 0 /\ p.relevance_score <= RelScale
                /\ (TermInName(term, p.name) => p.relevance_score = RelScale)
                /\ ((~TermInName(term, p.name) /\ term_words = {}) => p.relevance_score = 0)
                /\ ((~TermInName(term, p.name) /\ term_words # {}) =>
                       p.relevance_score * Cardinality(term_words)
                         = Cardinality(Overlap(term, p.name)) * RelScale)
                /\ \A q \in ScoredAgainst(i) :
                      (Overlap(term, p.name) \subseteq Overlap(term, q.name)
                       /\ ~TermInName(term, p.name)) =>
                          p.relevance_score <= q.relevance_score

\* A term in mixed case scored two names of which it is no substring: one
\* shares half of its words, the other all of them.
C23_Witness ==
    \E i \in Tasks :
        \E p, q \in ScoredAgainst(i) :
            /\ ~TermInName(search_terms[i][1], p.name)
            /\ ~TermInName(search_terms[i][1], q.name)
            /\ search_terms[i][1] # Lower(search_terms[i][1])
            /\ 2 * p.relevance_score = RelScale
            /\ q.relevance_score = RelScale


\* The results of Scenario A: term "spaghetti" alone found the two
\* products of the scenario's catalog.
ScenarioResults ==
    {r \in AllResults :
        /\ r.search_terms_used = <<Spaghetti>>
        /\ {p.name : p \in Range(r.products_found)} = {BarillaSpaghetti, SpagheteNapolitan}}

\* The list is in order (score descending, price ascending) and the best
\* candidate is its first element.
ScenarioRanked(r) ==
    /\ Len(r.products_found) = 2
    /\ ~RanksBefore(r.products_found[2], r.products_found[1])
    /\ r.best_recommendation = <<r.products_found[1]>>

\* C24 (as stated): in Scenario A both candidates receive partial
\* word-overlap scores, the result is sorted by score descending then price
\* ascending, and the best candidate is the first element.
C24_BothPartialScores ==
    \A r \in ScenarioResults :
        /\ \A p \in Range(r.products_found) :
              p.relevance_score > 0 /\ p.relevance_score < RelScale
        /\ ScenarioRanked(r)

\* C24 (amended): in Scenario A "Barilla Spaghetti 500g" scores exactly
\* 1.0 (the term is a substring of its name) and "Spaghete Napolitan"
\* scores 0 (no word in common); the result is sorted by score descending
\* then price ascending, and the best candidate is its first element,
\* "Barilla Spaghetti 500g" at 8.99.
C24_SubstringScoresOne ==
    \A r \in ScenarioResults :
        /\ \A p \in Range(r.products_found) :
              /\ (p.name = BarillaSpaghetti => p.relevance_score = RelScale)
              /\ (p.name = SpagheteNapolitan => p.relevance_score = 0)
        /\ ScenarioRanked(r)
        /\ r.best_recommendation[1].name = BarillaSpaghetti
        /\ r.best_recommendation[1].price = 899

\* The batch has returned a result of Scenario A.
C24_Witness ==
    /\ ReturnedBatch
    /\ \E k \in DOMAIN response[1].data : response[1].data[k] \in ScenarioResults


\* The ingredients the validation document names, in either list.
NamedIngredients ==
    {validation_data.selected_ingredients[k].name :
        k \in DOMAIN validation_data.selected_ingredients}
    \cup {validation_data.data[k].ingredient : k \in DOMAIN validation_data.data}

\* One result of the batch for each name, the first in the list.
FirstResultOf(name) ==
    LET k == CHOOSE k \in DOMAIN response[1].data :
                 /\ response[1].data[k].ingredient = name
                 /\ \A j \in 1..(k - 1) : response[1].data[j].ingredient # name
    IN  response[1].data[k]

RECURSIVE CostOnce(_)
\* The best prices of one result per name, added up.
CostOnce(names) ==
    IF names = {} THEN 0
    ELSE LET name == CHOOSE n \in names : TRUE
             r == FirstResultOf(name)
         IN  (IF r.search_success THEN r.best_recommendation[1].price ELSE 0)
             + CostOnce(names \ {name})

\* C25: each ingredient the validation document names is resolved at most
\* once per batch: one search task and one result per name, also for a
\* name that is in selected_ingredients and in data, and its best price
\* counted once in the total estimated cost.
C25_IngredientResolvedOnce ==
    ReturnedBatch =>
        /\ \A j, k \in DOMAIN response[1].data :
              response[1].data[j].ingredient = response[1].data[k].ingredient => j = k
        /\ Len(response[1].data) = Cardinality(NamedIngredients)
        /\ Analysis.total_estimated_cost_ron = CostOnce(NamedIngredients)


\* Candidates found by the first k requests of ingredient i, before
\* deduplication.
Cumulative(i, k) == SumFrom([j \in 1..k |-> requests[i][j].found], 1, 0)

\* C26: the terms fetched for an ingredient are the shortest prefix of
\* its planned list whose cumulative candidate count (before
\* deduplication) reaches max_products_per_search, or the whole list when
\* the count is never reached: below the threshold the loop goes on, also
\* after a successful term, and at the threshold nothing more is fetched.
C26_FetchedPrefixReachesThreshold ==
    \A i \in Tasks :
        /\ \A k \in DOMAIN requests[i] :
              /\ requests[i][k].term = search_terms[i][k]
              /\ (k < Len(requests[i]) => Cumulative(i, k) < max_products_per_search)
        /\ (pc[i] \in {"acquire", "in_flight"} =>
               Cumulative(i, Len(requests[i])) < max_products_per_search)
        /\ (Finished(i) =>
               \/ Len(requests[i]) = Len(search_terms[i])
               \/ Cumulative(i, Len(requests[i])) >= max_products_per_search)

\* The first term found a product, too few for the threshold, the second
\* reached it and the third planned term was not fetched.
C26_Witness ==
    \E i \in Tasks :
        /\ Finished(i)
        /\ Len(search_terms[i]) = 3
        /\ Len(requests[i]) = 2
        /\ requests[i][1].found >= 1
        /\ Cumulative(i, 1) < max_products_per_search
        /\ Cumulative(i, 2) >= max_products_per_search


\* C27: every permit taken is given back on every way out of
\* search_product (the free permits and the requests in flight always add
\* up to the limit), and under fair scheduling, every request being
\* answered or timing out, every ingredient task eventually finishes, the
\* batch call returns and all permits are free again.
C27_PermitsReleasedAndBatchReturns ==
    /\ [](rate_limiter + Cardinality(InFlight) = max_concurrent_requests)
    /\ <>[](/\ Returned
            /\ \A i \in Tasks : Finished(i)
            /\ rate_limiter = max_concurrent_requests)

\* A batch of more ingredients than permits has returned, requests of it
\* having ended by an answer and by a failure, and all permits are free.
C27_Witness ==
    /\ Returned
    /\ Cardinality(Tasks) > max_concurrent_requests
    /\ rate_limiter = max_concurrent_requests
    /\ \E i \in Tasks : \E k \in DOMAIN requests[i] : requests[i][k].failed
    /\ \E i \in Tasks : \E k \in DOMAIN requests[i] : ~requests[i][k].failed


\* C28: the result list of a batch has exactly one entry per extracted
\* ingredient and entry i is the result of ingredient i (what its task
\* returned, or its placeholder), whatever the order in which the tasks
\* completed or failed; no list exists while the tasks run, it is filled
\* once all of them have finished.
C28_ResultsInInputOrder ==
    /\ (cpc = "gathering" => response = <<>>)
    /\ (ReturnedBatch =>
          /\ DOMAIN response[1].data = DOMAIN ingredients
          /\ \A i \in Tasks :
                /\ Finished(i)
                /\ response[1].data[i].ingredient = ingredients[i].name
                /\ (pc[i] = "done" => response[1].data[i] = task_result[i][1])
                /\ (pc[i] = "raised" =>
                       response[1].data[i] = PlaceholderResult(ingredients[i])))

\* A returned batch of two ingredients of different names: the task of the
\* first raised, the task of the second returned a successful result.
C28_Witness ==
    /\ ReturnedBatch
    /\ Len(ingredients) = 2
    /\ ingredients[1].name # ingredients[2].name
    /\ pc[1] = "raised"
    /\ pc[2] = "done"
    /\ response[1].data[2].search_success


C30_InitializedExactlyOnce ==
    /\ Cardinality(InitializeFrames) <= 1
    /\ (ai_client = "instance" /\ call_stack = <<>> /\ uses = 0 => generations <= 1)
    /\ (returned = "True" => initialized)

=============================================================================
